---- MODULE Spec2Model ----
(***************************************************************************)
(* Model of geyser's vote database (src/src/database.rs): the Database     *)
(* that the updater fills, the trainer that turns it into a                *)
(* PredictionModel, and the two queries of the PredictionModel.            *)
(*                                                                         *)
(* Ids are 0-based as in the source; TLA+ sequences are 1-based, so the    *)
(* Vec element with id i is written v[i + 1].                              *)
(***************************************************************************)
EXTENDS Integers, Sequences, FiniteSets, TLC

(***************************************************************************)
(* Bounds of the model.                                                    *)
(***************************************************************************)
MaxArticles == 2        \* add_article calls per run (length of page_ids)
MaxTotalVotes == 2      \* votes in the database (total_votes)
MaxTop == 1             \* largest --top of a query
MaxFactors == 1         \* largest --latent_factors
MaxIterations == 1      \* largest --iterations

(***************************************************************************)
(* Inputs.  A BTreeMap<String, usize> iterates in the order of its keys,   *)
(* so the names are listed in their lexicographic order.                   *)
(***************************************************************************)
ArticleNames == <<"scp-001", "scp-002">>
UserNames == <<"alice", "bob">>

Range(s) == {s[i] : i \in DOMAIN s}
UserIds == 0 .. (Len(UserNames) - 1)
Vote == UserIds \X BOOLEAN
VoteLists == UNION {[1 .. n -> Vote] : n \in 0 .. MaxTotalVotes}

(***************************************************************************)
(* f64 as fixed-point numbers with two decimals, plus NaN.  Sums are       *)
(* exact; a product is rounded down to the resolution.                     *)
(***************************************************************************)
One == 100
InitialFactor == 10
Num(v) == [nan |-> FALSE, v |-> v]
NaN == [nan |-> TRUE, v |-> 0]
Zero == Num(0)
FAdd(a, b) == IF a.nan \/ b.nan THEN NaN ELSE Num(a.v + b.v)
FSub(a, b) == IF a.nan \/ b.nan THEN NaN ELSE Num(a.v - b.v)
FMul(a, b) == IF a.nan \/ b.nan THEN NaN ELSE Num((a.v * b.v) \div One)

\* f64::partial_cmp: None when either side is NaN
partial_cmp(a, b) ==
    IF a.nan \/ b.nan THEN "None"
    ELSE IF a.v < b.v THEN "Less"
    ELSE IF a.v > b.v THEN "Greater"
    ELSE "Equal"

VARIABLES
    articles,        \* Database.articles: article name -> article id
    page_ids,        \* Database.page_ids
    article_votes,   \* Database.article_votes
    total_votes,     \* Database.total_votes
    users,           \* Database.users: user name -> user id
    user_factors,    \* PredictionModel.user_factors (rows of numbers)
    article_factors, \* PredictionModel.article_factors
    user_votes,      \* PredictionModel.user_votes, the read-filter
    pc,              \* "update": the database is being built,
                     \* "predict": a model is trained, "panicked": the process died
    call,            \* the last call: operation, arguments, returned id
    printed,         \* what the last query printed: <<name, prediction>>, best first
    files,           \* database.bin and prediction_model.bin: now, and when the run began
    writer,          \* the write of a file in progress: file, serialized bytes, position
    trainer          \* train_prediction_model in progress: matrices, loop counters, fold

vars == <<articles, page_ids, article_votes, total_votes, users,
          user_factors, article_factors, user_votes, pc, call, printed,
          files, writer, trainer>>

database == <<articles, page_ids, article_votes, total_votes, users>>
model == <<user_factors, article_factors, user_votes>>

EmptyMap == [n \in {} |-> 0]
Len0(m) == Cardinality(DOMAIN m)      \* BTreeMap::len
Insert(m, k, v) == [n \in DOMAIN m \cup {k} |-> IF n = k THEN v ELSE m[n]]

Call(op, name, votes, top, id) ==
    [op |-> op, name |-> name, votes |-> votes, top |-> top, id |-> id]

\* a file of the working directory: absent, or its bytes
NoFile == [exists |-> FALSE, bytes |-> <<>>]
FileOf(bytes) == [exists |-> TRUE, bytes |-> bytes]
DatabaseFile == "database.bin"
ModelFile == "prediction_model.bin"
FileNames == {DatabaseFile, ModelFile}
NoWriter == [file |-> "", step |-> "idle", serialized |-> <<>>]
NoTrainer == [step |-> "idle"]

\* a working directory without the two files
FreshDisk == [f \in FileNames |-> NoFile]

\* Database::new
Init ==
    /\ articles = EmptyMap
    /\ page_ids = <<>>
    /\ article_votes = <<>>
    /\ total_votes = 0
    /\ users = EmptyMap
    /\ user_factors = <<>>
    /\ article_factors = <<>>
    /\ user_votes = <<>>
    /\ pc = "update"
    /\ call = Call("new", "", <<>>, 0, 0)
    /\ printed = <<>>
    /\ files = [disk |-> FreshDisk, before |-> FreshDisk]
    /\ writer = NoWriter
    /\ trainer = NoTrainer

\* Database::add_article
add_article(article, page_id, votes) ==
    /\ pc = "update"
    /\ UNCHANGED <<files, writer, trainer>>
    /\ Len(page_ids) < MaxArticles
    /\ total_votes + Len(votes) <= MaxTotalVotes
    /\ articles' = Insert(articles, article, Len0(articles))
    /\ page_ids' = Append(page_ids, page_id)
    /\ total_votes' = total_votes + Len(votes)
    /\ article_votes' = Append(article_votes, votes)
    /\ call' = Call("add_article", article, votes, 0, 0)
    /\ UNCHANGED <<users, model, pc, printed>>

\* update_article that forgets to take the replaced votes out of total_votes
update_article_keeps_count(article, votes) ==
    /\ pc = "update"
    /\ UNCHANGED <<files, writer, trainer>>
    /\ call' = Call("update_article", article, votes, 0, 0)
    /\ IF article \in DOMAIN articles
       THEN LET article_id == articles[article] IN
            /\ total_votes - Len(article_votes[article_id + 1]) + Len(votes) <= MaxTotalVotes
            /\ total_votes' = total_votes + Len(votes)
            /\ article_votes' = [article_votes EXCEPT ![article_id + 1] = votes]
            /\ UNCHANGED <<articles, page_ids, users, model, pc, printed>>
       ELSE /\ pc' = "panicked"
            /\ UNCHANGED <<database, model, printed>>

\* update_article that extends the vote list instead of replacing it
update_article_extends(article, votes) ==
    /\ pc = "update"
    /\ UNCHANGED <<files, writer, trainer>>
    /\ call' = Call("update_article", article, votes, 0, 0)
    /\ IF article \in DOMAIN articles
       THEN LET article_id == articles[article] IN
            /\ total_votes - Len(article_votes[article_id + 1]) + Len(votes) <= MaxTotalVotes
            /\ total_votes' = total_votes + Len(votes)
            /\ article_votes' = [article_votes EXCEPT ![article_id + 1] = @ \o votes]
            /\ UNCHANGED <<articles, page_ids, users, model, pc, printed>>
       ELSE /\ pc' = "panicked"
            /\ UNCHANGED <<database, model, printed>>

\* Database::update_article
update_article(article, votes) ==
    /\ pc = "update"
    /\ UNCHANGED <<files, writer, trainer>>
    /\ call' = Call("update_article", article, votes, 0, 0)
    /\ IF article \in DOMAIN articles
       THEN LET article_id == articles[article] IN
            /\ total_votes - Len(article_votes[article_id + 1]) + Len(votes) <= MaxTotalVotes
            /\ total_votes' = total_votes - Len(article_votes[article_id + 1]) + Len(votes)
            /\ article_votes' = [article_votes EXCEPT ![article_id + 1] = votes]
            /\ UNCHANGED <<articles, page_ids, users, model, pc, printed>>
       ELSE \* unwrap() of None
            /\ pc' = "panicked"
            /\ UNCHANGED <<database, model, printed>>

\* add_user that does not look the name up first
add_user_always_inserts(user) ==
    /\ pc = "update"
    /\ UNCHANGED <<files, writer, trainer>>
    /\ users' = Insert(users, user, Len0(users))
    /\ call' = Call("add_user", user, <<>>, 0, Len0(users))
    /\ UNCHANGED <<articles, page_ids, article_votes, total_votes, model, pc, printed>>

\* Database::add_user
add_user(user) ==
    /\ pc = "update"
    /\ UNCHANGED <<files, writer, trainer>>
    /\ IF user \in DOMAIN users
       THEN /\ call' = Call("add_user", user, <<>>, 0, users[user])
            /\ UNCHANGED users
       ELSE LET user_id == Len0(users) IN
            /\ users' = Insert(users, user, user_id)
            /\ call' = Call("add_user", user, <<>>, 0, user_id)
    /\ UNCHANGED <<articles, page_ids, article_votes, total_votes, model, pc, printed>>

(***************************************************************************)
(* Database::train_prediction_model                                        *)
(***************************************************************************)
LearningRates == {Num(One)}
Regularizations == {Zero, NaN}

\* nalgebra::DMatrix::from_fn(rows, cols, |_, _| 0.1), as a sequence of rows
from_fn(rows, cols) == [r \in 1 .. rows |-> [c \in 1 .. cols |-> Num(InitialFactor)]]
\* nalgebra::DVector::zeros(n)
zeros(n) == [i \in 1 .. n |-> Zero]

\* row.dot(&other_row)
RECURSIVE DotFrom(_, _, _)
DotFrom(x, y, c) == IF c > Len(x) THEN Zero ELSE FAdd(FMul(x[c], y[c]), DotFrom(x, y, c + 1))
dot(x, y) == DotFrom(x, y, 1)

\* The fold closure's loop over one article's votes, from vote j on.
\* acc = (user_gradient, article_gradient, mean_square_error, count); factor is 0-based.
RECURSIVE FoldVotes(_, _, _, _, _, _, _, _)
FoldVotes(acc, article_id, votes, j, P, Q, factor, regularization) ==
    IF j > Len(votes) THEN acc
    ELSE LET user_id == votes[j][1]
             vote == IF votes[j][2] THEN Num(One) ELSE Num(0 - One)
             user_factor == P[user_id + 1]
             article_factor == Q[article_id + 1]
             prediction == dot(user_factor, article_factor)
             error == FSub(vote, prediction)
             user_factor_value == user_factor[factor + 1]
             article_factor_value == article_factor[factor + 1]
             next == [user_gradient |->
                         [acc.user_gradient EXCEPT ![user_id + 1] =
                             FAdd(@, FSub(FMul(article_factor_value, error),
                                          FMul(user_factor_value, regularization)))],
                      article_gradient |->
                         [acc.article_gradient EXCEPT ![article_id + 1] =
                             FAdd(@, FSub(FMul(user_factor_value, error),
                                          FMul(article_factor_value, regularization)))],
                      mean_square_error |-> FAdd(acc.mean_square_error, FMul(error, error)),
                      count |-> acc.count]
         IN FoldVotes(next, article_id, votes, j + 1, P, Q, factor, regularization)

\* fold over article_votes.par_iter().enumerate(), from article article_id on, and the
\* reduce of the partial accumulators (componentwise sums, exact here)
RECURSIVE FoldArticles(_, _, _, _, _, _, _)
FoldArticles(acc, votes_of, article_id, P, Q, factor, regularization) ==
    IF article_id >= Len(votes_of) THEN acc
    ELSE LET votes == votes_of[article_id + 1]
             done == FoldVotes(acc, article_id, votes, 1, P, Q, factor, regularization)
         IN FoldArticles([done EXCEPT !.count = @ + Len(votes)],
                         votes_of, article_id + 1, P, Q, factor, regularization)

Gradients(votes_of, U, A, P, Q, factor, regularization) ==
    FoldArticles([user_gradient |-> zeros(U), article_gradient |-> zeros(A),
                  mean_square_error |-> Zero, count |-> 0],
                 votes_of, 0, P, Q, factor, regularization)

\* an update that steps every column of the matrix
ColumnAddAssignAll(M, factor, learning_rate, gradient) ==
    [r \in DOMAIN M |->
        [c \in DOMAIN M[r] |-> FAdd(M[r][c], FMul(learning_rate, gradient[r]))]]

\* matrix.column_mut(factor).add_assign(learning_rate * gradient)
ColumnAddAssign(M, factor, learning_rate, gradient) ==
    [r \in DOMAIN M |->
        [M[r] EXCEPT ![factor + 1] = FAdd(@, FMul(learning_rate, gradient[r]))]]

\* one pass of the `for _ in 0..iterations` body
Sweep(votes_of, U, A, PQ, factor, learning_rate, regularization) ==
    LET gradients == Gradients(votes_of, U, A, PQ.P, PQ.Q, factor, regularization)
    IN [P |-> ColumnAddAssign(PQ.P, factor, learning_rate, gradients.user_gradient),
        Q |-> ColumnAddAssign(PQ.Q, factor, learning_rate, gradients.article_gradient)]

\* the two nested loops, from (factor, iteration) on
RECURSIVE TrainFrom(_, _, _, _, _, _, _, _, _, _)
TrainFrom(votes_of, U, A, PQ, factor, iteration, latent_factors, iterations, learning_rate, regularization) ==
    IF factor >= latent_factors THEN PQ
    ELSE IF iteration >= iterations
    THEN TrainFrom(votes_of, U, A, PQ, factor + 1, 0, latent_factors, iterations,
                   learning_rate, regularization)
    ELSE TrainFrom(votes_of, U, A,
                   Sweep(votes_of, U, A, PQ, factor, learning_rate, regularization),
                   factor, iteration + 1, latent_factors, iterations,
                   learning_rate, regularization)

\* A vote indexes a row that the matrices and gradient vectors do not have:
\* user_factors.row(user_id) or article_factors.row(article_id) panics.
TrainPanics(votes_of, U, A) ==
    \E a \in DOMAIN votes_of : \E j \in DOMAIN votes_of[a] :
        votes_of[a][j][1] >= U \/ a - 1 >= A

\* votes.iter().any(|(id, _)| *id == user_id)
VotedBy(votes, user_id) == \E j \in DOMAIN votes : votes[j][1] = user_id

\* a read-filter that records the upvoted articles only
ReadFilterUpvotes(users_map, votes_of) ==
    [i \in 1 .. Len0(users_map) |->
        SelectSeq([a \in 1 .. Len(votes_of) |-> a - 1],
                  LAMBDA article_id :
                      \E j \in DOMAIN votes_of[article_id + 1] :
                          votes_of[article_id + 1][j] = <<i - 1, TRUE>>)]

\* the read-filter: for every user, the ids of the articles the user voted on
ReadFilter(users_map, votes_of) ==
    [i \in 1 .. Len0(users_map) |->
        IF \E user \in DOMAIN users_map : users_map[user] = i - 1
        THEN SelectSeq([a \in 1 .. Len(votes_of) |-> a - 1],
                       LAMBDA article_id : VotedBy(votes_of[article_id + 1], i - 1))
        ELSE <<>>]

train_prediction_model(latent_factors, iterations, learning_rate, regularization) ==
    /\ pc = "update"
    /\ UNCHANGED <<files, writer, trainer>>
    /\ call' = Call("train", "", <<>>, 0, 0)
    /\ LET U == Len0(users)
           A == Len0(articles)
       IN IF TrainPanics(article_votes, U, A)
          THEN /\ pc' = "panicked"
               /\ UNCHANGED model
          ELSE LET PQ == TrainFrom(article_votes, U, A,
                                   [P |-> from_fn(U, latent_factors),
                                    Q |-> from_fn(A, latent_factors)],
                                   0, 0, latent_factors, iterations,
                                   learning_rate, regularization)
               IN /\ user_factors' = PQ.P
                  /\ article_factors' = PQ.Q
                  /\ user_votes' = ReadFilter(users, article_votes)
                  /\ pc' = "predict"
    /\ UNCHANGED <<database, printed>>

(***************************************************************************)
(* PredictionModel                                                         *)
(***************************************************************************)
\* BTreeMap::iter: the keys of m in their order
Keys(m, order) == SelectSeq(order, LAMBDA n : n \in DOMAIN m)

\* sort_by(|a, b| b.1.partial_cmp(&a.1).unwrap()) is a stable sort: x goes before the
\* first y that the comparator puts after it
RECURSIVE InsertSorted(_, _)
InsertSorted(sorted, x) ==
    IF sorted = <<>> THEN <<x>>
    ELSE IF partial_cmp(Head(sorted)[2], x[2]) = "Less"
    THEN <<x>> \o sorted
    ELSE <<Head(sorted)>> \o InsertSorted(Tail(sorted), x)

RECURSIVE SortFrom(_, _, _)
SortFrom(s, i, sorted) ==
    IF i > Len(s) THEN sorted ELSE SortFrom(s, i + 1, InsertSorted(sorted, s[i]))
sort_by(s) == SortFrom(s, 1, <<>>)

\* with two or more entries every entry is compared at least once, and
\* partial_cmp of a NaN is None, which unwrap() turns into a panic
SortPanics(s) == Len(s) >= 2 /\ \E i \in DOMAIN s : s[i][2].nan

\* iter().take(top)
take(s, top) == SubSeq(s, 1, IF top < Len(s) THEN top ELSE Len(s))

\* main loads the model once per command and hands every name of the command to the
\* same query with the same --top
InCommand(op, top) == call.op = "train" \/ (call.op = op /\ call.top = top)

\* the filter of predict_for_user: the position of the entry in `predictions`
\* is looked up in the user's read-filter
KeepForUser(position, user_id) == position \notin Range(user_votes[user_id + 1])

predict_for_user(name, top) ==
    /\ pc = "predict"
    /\ UNCHANGED <<files, writer, trainer>>
    /\ InCommand("predict_for_user", top)
    /\ call' = Call("predict_for_user", name, <<>>, top, 0)
    /\ IF name \notin DOMAIN users
       THEN /\ printed' = <<>>
            /\ UNCHANGED pc
       ELSE LET user_id == users[name]
                user_factor == user_factors[user_id + 1]
                names == Keys(articles, ArticleNames)
            IN IF \E article \in DOMAIN articles : articles[article] >= Len(article_factors)
               THEN \* article_factors.row(article_id) is out of bounds
                    /\ pc' = "panicked"
                    /\ printed' = <<>>
               ELSE LET predictions ==
                            [i \in 1 .. Len(names) |->
                                <<names[i], dot(user_factor, article_factors[articles[names[i]] + 1])>>]
                        enumerated == [i \in 1 .. Len(predictions) |-> <<i - 1, predictions[i]>>]
                        kept == SelectSeq(enumerated, LAMBDA e : KeepForUser(e[1], user_id))
                        sorted_predictions == [i \in 1 .. Len(kept) |-> kept[i][2]]
                    IN IF SortPanics(sorted_predictions)
                       THEN /\ pc' = "panicked"
                            /\ printed' = <<>>
                       ELSE /\ printed' = take(sort_by(sorted_predictions), top)
                            /\ UNCHANGED pc
    /\ UNCHANGED <<database, model>>

\* a filter that drops only the users who upvoted the article
KeepForArticleUpvotes(user_id, article_id) ==
    ~\E j \in DOMAIN article_votes[article_id + 1] :
        article_votes[article_id + 1][j] = <<user_id, TRUE>>

\* the filter of predict_for_article: the user is not among the article's voters
KeepForArticle(user_id, article_id) == ~VotedBy(article_votes[article_id + 1], user_id)

predict_for_article(name, top) ==
    /\ pc = "predict"
    /\ UNCHANGED <<files, writer, trainer>>
    /\ InCommand("predict_for_article", top)
    /\ call' = Call("predict_for_article", name, <<>>, top, 0)
    /\ IF name \notin DOMAIN articles
       THEN /\ printed' = <<>>
            /\ UNCHANGED pc
       ELSE LET article_id == articles[name] IN
            IF article_id >= Len(article_factors)
            THEN \* article_factors.row(article_id) is out of bounds
                 /\ pc' = "panicked"
                 /\ printed' = <<>>
            ELSE LET article_factor == article_factors[article_id + 1]
                     names == Keys(users, UserNames)
                     predictions ==
                         [i \in 1 .. Len(names) |->
                             <<names[i], dot(user_factors[users[names[i]] + 1], article_factor),
                               users[names[i]]>>]
                     kept == SelectSeq(predictions, LAMBDA e : KeepForArticle(e[3], article_id))
                     sorted_predictions == [i \in 1 .. Len(kept) |-> <<kept[i][1], kept[i][2]>>]
                 IN IF SortPanics(sorted_predictions)
                    THEN /\ pc' = "panicked"
                         /\ printed' = <<>>
                    ELSE /\ printed' = take(sort_by(sorted_predictions), top)
                         /\ UNCHANGED pc
    /\ UNCHANGED <<database, model>>

\* Updater::update hands add_article the page id scraped from the article's own page
PageIdOf(article) == IF article = ArticleNames[1] THEN "p1" ELSE "p2"

\* the calls of the Database while it is built
Build ==
    \/ \E a \in Range(ArticleNames), v \in VoteLists : add_article(a, PageIdOf(a), v)
    \/ \E u \in Range(UserNames) : add_user(u)

\* `update`, then `train`, then `predict` and `advertise`
Next ==
    \/ Build
    \/ \E f \in 1 .. MaxFactors, i \in 1 .. MaxIterations,
          l \in LearningRates, r \in Regularizations : train_prediction_model(f, i, l, r)
    \/ \E u \in Range(UserNames), top \in 0 .. MaxTop : predict_for_user(u, top)
    \/ \E a \in Range(ArticleNames), top \in 0 .. MaxTop : predict_for_article(a, top)

\* every sequence of calls of the Database's mutators
NextStore ==
    \/ Build
    \/ \E a \in Range(ArticleNames), v \in VoteLists : update_article(a, v)

Spec == Init /\ [][Next]_vars
SpecStore == Init /\ [][NextStore]_vars

(***************************************************************************)
(* Database::save and the write at the end of train_prediction_model.      *)
(* Spec leaves the files out: its queries read the model that the trainer  *)
(* built.  SpecFiles follows a write statement by statement.               *)
(***************************************************************************)
\* serde_cbor::to_vec of a Database: a map of the field names to the field values
to_vec_database == <<<<"articles", articles>>, <<"page_ids", page_ids>>, <<"article_votes", article_votes>>, <<"total_votes", total_votes>>, <<"users", users>>>>
\* serde_cbor::to_vec of a PredictionModel
to_vec_model == <<<<"database", to_vec_database>>, <<"user_factors", user_factors>>, <<"article_factors", article_factors>>, <<"user_votes", user_votes>>>>
to_vec(file) == IF file = DatabaseFile THEN to_vec_database ELSE to_vec_model

\* what an earlier `update` and `train` left behind when no article could be downloaded
EmptyDatabaseBytes == <<<<"articles", EmptyMap>>, <<"page_ids", <<>>>>, <<"article_votes", <<>>>>, <<"total_votes", 0>>, <<"users", EmptyMap>>>>
EmptyModelBytes == <<<<"database", EmptyDatabaseBytes>>, <<"user_factors", <<>>>>, <<"article_factors", <<>>>>, <<"user_votes", <<>>>>>>
EarlierDisk == [f \in FileNames |-> FileOf(IF f = DatabaseFile THEN EmptyDatabaseBytes ELSE EmptyModelBytes)]

\* the run starts in a fresh directory or in one that holds the files of an earlier run
InitFiles ==
    /\ articles = EmptyMap
    /\ page_ids = <<>>
    /\ article_votes = <<>>
    /\ total_votes = 0
    /\ users = EmptyMap
    /\ user_factors = <<>>
    /\ article_factors = <<>>
    /\ user_votes = <<>>
    /\ pc = "update"
    /\ call = Call("new", "", <<>>, 0, 0)
    /\ printed = <<>>
    /\ \E disk \in {FreshDisk, EarlierDisk} : files = [disk |-> disk, before |-> disk]
    /\ writer = NoWriter
    /\ trainer = NoTrainer

\* save() is the last statement of Updater::update; the trainer writes the model it built
MayWrite(file) ==
    /\ writer.step = "idle"
    /\ \/ file = DatabaseFile /\ pc = "update"
       \/ file = ModelFile /\ pc = "predict" /\ call.op = "train"

\* File::create(file).unwrap(): the file is created, or truncated if it exists
file_create(file) ==
    /\ MayWrite(file)
    /\ files' = [files EXCEPT !.disk[file] = FileOf(<<>>)]
    /\ writer' = [file |-> file, step |-> "created", serialized |-> <<>>]
    /\ pc' = "writing"
    /\ UNCHANGED <<database, model, call, printed, trainer>>

\* File::create(file) returns Err (no permission, full disk): unwrap() panics
file_create_fails(file) ==
    /\ MayWrite(file)
    /\ pc' = "panicked"
    /\ UNCHANGED <<database, model, call, printed, files, writer, trainer>>

\* let serialized = serde_cbor::to_vec(self).unwrap()
serialize ==
    /\ pc = "writing" /\ writer.step = "created"
    /\ writer' = [writer EXCEPT !.step = "serialized", !.serialized = to_vec(writer.file)]
    /\ UNCHANGED <<database, model, pc, call, printed, files, trainer>>

\* one write() of file.write_all(&serialized): the system takes n more of the bytes
file_write(n) ==
    /\ pc = "writing" /\ writer.step = "serialized"
    /\ LET written == Len(files.disk[writer.file].bytes)
           bytes == SubSeq(writer.serialized, 1, written + n)
       IN /\ written + n <= Len(writer.serialized)
          /\ files' = [files EXCEPT !.disk[writer.file] = FileOf(bytes)]
          /\ IF written + n = Len(writer.serialized)
             THEN /\ writer' = [writer EXCEPT !.step = "done"]
                  /\ pc' = IF writer.file = DatabaseFile THEN "saved" ELSE "predict"
             ELSE UNCHANGED <<writer, pc>>
    /\ UNCHANGED <<database, model, call, printed, trainer>>

\* a write() returns Err: expect() panics with what was written so far on the disk
file_write_fails ==
    /\ pc = "writing" /\ writer.step = "serialized"
    /\ pc' = "panicked"
    /\ UNCHANGED <<database, model, call, printed, files, writer, trainer>>

\* the process is torn down while it writes
teardown ==
    /\ pc = "writing"
    /\ pc' = "killed"
    /\ UNCHANGED <<database, model, call, printed, files, writer, trainer>>

NextFiles ==
    \/ Build
    \/ \E f \in 1 .. MaxFactors, i \in 1 .. MaxIterations,
          l \in LearningRates, r \in Regularizations : train_prediction_model(f, i, l, r)
    \/ \E file \in FileNames : file_create(file)
    \/ \E file \in FileNames : file_create_fails(file)
    \/ serialize
    \/ \E n \in 1 .. Len(writer.serialized) : file_write(n)
    \/ file_write_fails
    \/ teardown

SpecFiles == InitFiles /\ [][NextFiles]_vars

(***************************************************************************)
(* train_prediction_model statement by statement.  Spec takes the whole    *)
(* training as one step; SpecTrain follows the loops, the parallel fold    *)
(* over the articles and the reduce of its accumulators.                   *)
(***************************************************************************)
TrainFactors == 2       \* largest --latent_factors of the stepwise trainer
TrainIterations == 2    \* largest --iterations of the stepwise trainer

Users1 == [n \in {"alice"} |-> 0]
Users2 == [n \in {"alice", "bob"} |-> IF n = "alice" THEN 0 ELSE 1]
Articles1 == [n \in {"scp-001"} |-> 0]
Articles2 == [n \in {"scp-001", "scp-002"} |-> IF n = "scp-001" THEN 0 ELSE 1]
Articles3 == [n \in {"scp-001", "scp-002", "scp-003"} |-> IF n = "scp-001" THEN 0 ELSE IF n = "scp-002" THEN 1 ELSE 2]
Stored(a, p, v, t, u) == [articles |-> a, page_ids |-> p, article_votes |-> v, total_votes |-> t, users |-> u]

\* the databases that Database::load reads from database.bin
LoadedDatabases ==
    { Stored(EmptyMap, <<>>, <<>>, 0, EmptyMap),
      Stored(Articles1, <<"p1">>, << <<<<0, TRUE>>>> >>, 1, Users1),
      Stored(Articles1, <<"p1">>, << <<<<1, TRUE>>>> >>, 1, Users1),
      Stored(Articles2, <<"p1", "p2">>,
             << <<<<0, TRUE>>, <<1, FALSE>>>>, <<<<0, FALSE>>, <<1, TRUE>>>> >>, 4, Users2),
      Stored(Articles3, <<"p1", "p2", "p3">>,
             << <<<<0, TRUE>>>>, <<>>, <<<<0, FALSE>>, <<1, TRUE>>>> >>, 3, Users2) }

\* main, `train`: Database::load()
InitTrain ==
    /\ \E d \in LoadedDatabases :
          /\ articles = d.articles
          /\ page_ids = d.page_ids
          /\ article_votes = d.article_votes
          /\ total_votes = d.total_votes
          /\ users = d.users
    /\ user_factors = <<>>
    /\ article_factors = <<>>
    /\ user_votes = <<>>
    /\ pc = "train"
    /\ call = Call("load", "", <<>>, 0, 0)
    /\ printed = <<>>
    /\ files = [disk |-> FreshDisk, before |-> FreshDisk]
    /\ writer = NoWriter
    /\ trainer = NoTrainer

\* the identity closure of fold and of reduce
identity(U, A) ==
    [user_gradient |-> zeros(U), article_gradient |-> zeros(A),
     mean_square_error |-> Zero, count |-> 0]

\* the reduce closure: |a, b| (a.0 + b.0, a.1 + b.1, a.2 + b.2, a.3 + b.3)
reduce_op(a, b) ==
    [user_gradient |-> [i \in DOMAIN a.user_gradient |-> FAdd(a.user_gradient[i], b.user_gradient[i])],
     article_gradient |-> [i \in DOMAIN a.article_gradient |-> FAdd(a.article_gradient[i], b.article_gradient[i])],
     mean_square_error |-> FAdd(a.mean_square_error, b.mean_square_error),
     count |-> a.count + b.count]

\* gradients.2 / gradients.3 as f64
FDiv(a, n) == IF a.nan \/ n = 0 THEN NaN ELSE Num(a.v \div n)

\* par_iter().enumerate() over n articles, split at `cuts`: every piece is a range
\* lo..hi of article ids that one worker folds into an accumulator of its own
Nth(S, i) == CHOOSE x \in S : Cardinality({y \in S : y < x}) = i - 1
Pieces(cuts, n, U, A) ==
    IF n = 0 THEN <<>>
    ELSE LET los == {0} \cup cuts
             his == cuts \cup {n}
         IN [i \in 1 .. Cardinality(los) |->
                [lo |-> Nth(los, i), hi |-> Nth(his, i), article |-> Nth(los, i),
                 vote |-> 1, acc |-> identity(U, A)]]

\* let mut user_factors = ..; let mut article_factors = ..;
train_begin(latent_factors, iterations, learning_rate, regularization) ==
    /\ pc = "train" /\ trainer.step = "idle"
    /\ trainer' = [step |-> "loop",
                   latent_factors |-> latent_factors, iterations |-> iterations,
                   learning_rate |-> learning_rate, regularization |-> regularization,
                   P |-> from_fn(Len0(users), latent_factors),
                   Q |-> from_fn(Len0(articles), latent_factors),
                   factor |-> 0, iteration |-> 0, pieces |-> <<>>, workers |-> 0,
                   mean_square_error |-> Zero,
                   sweeps |-> [k \in 1 .. latent_factors |-> 0]]
    /\ call' = Call("train", "", <<>>, 0, 0)
    /\ UNCHANGED <<database, model, pc, printed, files, writer>>

\* the head of the loop body: the parallel iterator is split among the workers
sweep_split(cuts) ==
    /\ pc = "train" /\ trainer.step = "loop"
    /\ trainer' = [trainer EXCEPT
                      !.step = "fold",
                      !.workers = Cardinality(cuts) + 1,
                      !.pieces = Pieces(cuts, Len(article_votes), Len0(users), Len0(articles))]
    /\ UNCHANGED <<database, model, pc, call, printed, files, writer>>

\* a worker that does not collect the gradient but steps the two factors at once
AfterVoteInPlace(t, p) ==
    LET piece == t.pieces[p]
        votes == article_votes[piece.article + 1]
        user_id == votes[piece.vote][1]
        one == FoldVotes(identity(Len(t.P), Len(t.Q)), piece.article, SubSeq(votes, 1, piece.vote),
                         piece.vote, t.P, t.Q, t.factor, t.regularization)
    IN [t EXCEPT !.pieces[p].vote = @ + 1,
                 !.P[user_id + 1][t.factor + 1] =
                     FAdd(@, FMul(t.learning_rate, one.user_gradient[user_id + 1])),
                 !.Q[piece.article + 1][t.factor + 1] =
                     FAdd(@, FMul(t.learning_rate, one.article_gradient[piece.article + 1]))]

\* the trainer after the worker of piece p has run the body of `for &(user_id, vote) in
\* votes` once; the factor matrices are only read
AfterVote(t, p) ==
    LET piece == t.pieces[p]
        votes == article_votes[piece.article + 1]
    IN [t EXCEPT !.pieces[p].vote = @ + 1,
                 !.pieces[p].acc = FoldVotes(@, piece.article, SubSeq(votes, 1, piece.vote),
                                             piece.vote, t.P, t.Q, t.factor, t.regularization)]

\* a row that the matrices or the gradient vectors do not have
VotePanics(t, p) ==
    LET piece == t.pieces[p] IN
    \/ article_votes[piece.article + 1][piece.vote][1] >= Len(t.P)
    \/ piece.article >= Len(t.Q)

fold_vote(p) ==
    /\ pc = "train" /\ trainer.step = "fold"
    /\ p \in DOMAIN trainer.pieces
    /\ trainer.pieces[p].article < trainer.pieces[p].hi
    /\ trainer.pieces[p].vote <= Len(article_votes[trainer.pieces[p].article + 1])
    /\ IF VotePanics(trainer, p)
       THEN pc' = "panicked" /\ UNCHANGED trainer
       ELSE trainer' = AfterVote(trainer, p) /\ UNCHANGED pc
    /\ UNCHANGED <<database, model, call, printed, files, writer>>

\* count += votes.len(); the worker goes on to the next article of its piece
fold_article_done(p) ==
    /\ pc = "train" /\ trainer.step = "fold"
    /\ p \in DOMAIN trainer.pieces
    /\ trainer.pieces[p].article < trainer.pieces[p].hi
    /\ trainer.pieces[p].vote > Len(article_votes[trainer.pieces[p].article + 1])
    /\ trainer' = [trainer EXCEPT
                      !.pieces[p].acc.count = @ + Len(article_votes[trainer.pieces[p].article + 1]),
                      !.pieces[p].article = @ + 1,
                      !.pieces[p].vote = 1]
    /\ UNCHANGED <<database, model, pc, call, printed, files, writer>>

PieceDone(piece) == piece.article = piece.hi

\* reduce: two neighbouring pieces that are folded become one
reduce(p) ==
    /\ pc = "train" /\ trainer.step = "fold"
    /\ p \in DOMAIN trainer.pieces /\ p + 1 \in DOMAIN trainer.pieces
    /\ PieceDone(trainer.pieces[p]) /\ PieceDone(trainer.pieces[p + 1])
    /\ LET a == trainer.pieces[p]
           b == trainer.pieces[p + 1]
           ab == [lo |-> a.lo, hi |-> b.hi, article |-> b.hi, vote |-> 1,
                  acc |-> reduce_op(a.acc, b.acc)]
       IN trainer' = [trainer EXCEPT
                         !.pieces = SubSeq(@, 1, p - 1) \o <<ab>> \o SubSeq(@, p + 2, Len(@))]
    /\ UNCHANGED <<database, model, pc, call, printed, files, writer>>

\* the fold and the reduce have returned `gradients`
Reduced(t) == t.step = "fold" /\ (t.pieces = <<>> \/ (Len(t.pieces) = 1 /\ PieceDone(t.pieces[1])))

\* column_mut(factor).add_assign(learning_rate * gradients.0 / .1), the mean square
\* error, and the step of the two loops
sweep_apply ==
    /\ pc = "train" /\ Reduced(trainer)
    /\ LET gradients == IF trainer.pieces = <<>>
                        THEN identity(Len0(users), Len0(articles))
                        ELSE trainer.pieces[1].acc
           last == trainer.iteration + 1 = trainer.iterations
       IN trainer' = [trainer EXCEPT
             !.P = ColumnAddAssign(@, trainer.factor, trainer.learning_rate, gradients.user_gradient),
             !.Q = ColumnAddAssign(@, trainer.factor, trainer.learning_rate, gradients.article_gradient),
             !.mean_square_error = FDiv(gradients.mean_square_error, gradients.count),
             !.sweeps[trainer.factor + 1] = @ + 1,
             !.pieces = <<>>,
             !.iteration = IF last THEN 0 ELSE @ + 1,
             !.factor = IF last THEN @ + 1 ELSE @,
             !.step = IF last /\ trainer.factor + 1 = trainer.latent_factors
                      THEN "trained" ELSE "loop"]
    /\ UNCHANGED <<database, model, pc, call, printed, files, writer>>

\* the read-filter and the PredictionModel
train_end ==
    /\ pc = "train" /\ trainer.step = "trained"
    /\ user_factors' = trainer.P
    /\ article_factors' = trainer.Q
    /\ user_votes' = ReadFilter(users, article_votes)
    /\ trainer' = [trainer EXCEPT !.step = "done"]
    /\ pc' = "predict"
    /\ UNCHANGED <<database, call, printed, files, writer>>

NextTrain ==
    \/ \E f \in 1 .. TrainFactors, i \in 1 .. TrainIterations,
          l \in LearningRates, r \in Regularizations : train_begin(f, i, l, r)
    \/ \E cuts \in SUBSET (1 .. (Len(article_votes) - 1)) : sweep_split(cuts)
    \/ \E p \in 1 .. Len(article_votes) : fold_vote(p)
    \/ \E p \in 1 .. Len(article_votes) : fold_article_done(p)
    \/ \E p \in 1 .. Len(article_votes) : reduce(p)
    \/ sweep_apply
    \/ train_end

SpecTrain == InitTrain /\ [][NextTrain]_vars

(***************************************************************************)
(* Properties                                                              *)
(***************************************************************************)
Queried(op) == call.op = op
\* the ids of the articles a user has voted on, as the read-filter records them
seen(user_id) == Range(user_votes[user_id + 1])
PrintedNames == {printed[i][1] : i \in DOMAIN printed}

\* C1: predict_for_user never prints an article whose id is in the read-filter of
\* the queried user, whatever the order in which the articles were inserted.
C1_UserQueryExcludesSeen ==
    (pc = "predict" /\ Queried("predict_for_user") /\ call.name \in DOMAIN users)
        => \A article \in PrintedNames : articles[article] \notin seen(users[call.name])

\* C2: add_article with a name that is already present leaves the article map,
\* page_ids, article_votes and total_votes as they were.
C2_DuplicateArticleRejected ==
    [][\A article \in Range(ArticleNames), votes \in VoteLists :
          (article \in DOMAIN articles /\ add_article(article, PageIdOf(article), votes))
              => UNCHANGED <<articles, page_ids, article_votes, total_votes>>]_vars

DenseArticleIds ==
    /\ Len(page_ids) = Len0(articles)
    /\ Len(article_votes) = Len0(articles)
    /\ \A article \in DOMAIN articles : articles[article] < Len0(articles)
    /\ \A a, b \in DOMAIN articles : articles[a] = articles[b] => a = b
StableArticleIds ==
    \A article \in DOMAIN articles :
        article \in DOMAIN articles' /\ articles'[article] = articles[article]

\* C3: article ids are dense (as many page ids and vote lists as names, every id
\* below that number, no id shared) and the id of a name never changes.
C3_ArticleIdsDenseAndStable == []DenseArticleIds /\ [][StableArticleIds]_vars

RECURSIVE SumLen(_, _)
SumLen(lists, i) == IF i > Len(lists) THEN 0 ELSE Len(lists[i]) + SumLen(lists, i + 1)

\* C4: total_votes is the sum of the lengths of all vote lists.
C4_TotalVotesIsSum == total_votes = SumLen(article_votes, 1)

C4_Witness ==
    /\ pc = "update" /\ Queried("update_article")
    /\ Len(article_votes) = 2
    /\ Len(article_votes[1]) = 2 /\ total_votes = 2

\* C5: update_article of a present name replaces the vote list of that name's id by
\* the given votes, moves total_votes by the difference of the lengths, and leaves
\* the article map, page_ids, users and every other vote list alone.
C5_UpdateArticleFrame ==
    [][(call'.op = "update_article" /\ pc' = "update")
          => LET id == articles[call'.name] IN
             /\ Len(article_votes') = Len(article_votes)
             /\ article_votes'[id + 1] = call'.votes
             /\ \A i \in DOMAIN article_votes : i # id + 1 => article_votes'[i] = article_votes[i]
             /\ total_votes' - total_votes = Len(call'.votes) - Len(article_votes[id + 1])
             /\ UNCHANGED <<articles, page_ids, users>>]_vars

C5_Witness ==
    /\ pc = "update" /\ Queried("update_article")
    /\ Len(article_votes) = 2
    /\ Len(article_votes[articles[call.name] + 1]) = 0
    /\ total_votes = 1

DenseUserIds == {users[user] : user \in DOMAIN users} = 0 .. (Len0(users) - 1)
GetOrCreate(user) ==
    IF user \in DOMAIN users
    THEN call'.id = users[user] /\ UNCHANGED database
    ELSE /\ call'.id = Len0(users)
         /\ users' = Insert(users, user, Len0(users))
         /\ UNCHANGED <<articles, page_ids, article_votes, total_votes>>

\* C6: add_user returns the id of a present name and changes nothing, or gives a new
\* name the current number of users as id; user ids are exactly 0..U-1 and a name is
\* always answered with the same id.
C6_AddUserGetOrCreate ==
    /\ []DenseUserIds
    /\ []((pc = "update" /\ Queried("add_user"))
            => (call.name \in DOMAIN users /\ users[call.name] = call.id))
    /\ [][\A user \in Range(UserNames) : add_user(user) => GetOrCreate(user)]_vars
    /\ [][\A user \in DOMAIN users : user \in DOMAIN users' /\ users'[user] = users[user]]_vars

C6_Witness ==
    /\ pc = "update" /\ Queried("add_user")
    /\ Len0(users) = 2 /\ call.id = 0
    /\ users[UserNames[2]] = 0

VotesInRange == \A a \in DOMAIN article_votes : \A j \in DOMAIN article_votes[a] :
                    article_votes[a][j][1] < Len0(users)

\* C7: in a trained model of a database whose votes all name users below U, every
\* vote (user, polarity) on article a has a in the read-filter of that user.
C7_ReadFilterCoversVotes ==
    (pc = "predict" /\ VotesInRange)
        => \A a \in DOMAIN article_votes : \A j \in DOMAIN article_votes[a] :
               (a - 1) \in seen(article_votes[a][j][1])

C7_Witness ==
    /\ pc = "predict" /\ Queried("train")
    /\ Len(user_votes) = 2
    /\ user_votes[1] = <<1>> /\ user_votes[2] = <<0>>
    /\ ~article_votes[1][1][2]

\* C8: predict_for_article never prints a user who has a vote in the vote list of
\* the queried article.
C8_ArticleQueryExcludesVoters ==
    (pc = "predict" /\ Queried("predict_for_article") /\ call.name \in DOMAIN articles)
        => \A user \in PrintedNames :
               ~VotedBy(article_votes[articles[call.name] + 1], users[user])

C8_Witness ==
    /\ pc = "predict" /\ Queried("predict_for_article") /\ call.name \in DOMAIN articles
    /\ Len(printed) = 1
    /\ Len0(users) = 2
    /\ \E user \in DOMAIN users :
           VotedBy(article_votes[articles[call.name] + 1], users[user])

\* the scores of both queries, and the entries the specified exclusion leaves
Score(user, article) ==
    dot(user_factors[users[user] + 1], article_factors[articles[article] + 1])
Candidates ==
    IF Queried("predict_for_user")
    THEN {<<article, Score(call.name, article)>> :
             article \in {a \in DOMAIN articles : articles[a] \notin seen(users[call.name])}}
    ELSE {<<user, Score(user, call.name)>> :
             user \in {u \in DOMAIN users :
                          ~VotedBy(article_votes[articles[call.name] + 1], users[u])}}
Answered ==
    /\ pc = "predict"
    /\ \/ Queried("predict_for_user") /\ call.name \in DOMAIN users
       \/ Queried("predict_for_article") /\ call.name \in DOMAIN articles
    /\ \A article \in DOMAIN articles : articles[article] < Len(article_factors)
AtMostTop == Len(printed) <= call.top
SortedDescending ==
    \A i, j \in DOMAIN printed :
        (i < j /\ ~printed[i][2].nan /\ ~printed[j][2].nan) => printed[i][2].v >= printed[j][2].v
TopOfCandidates ==
    /\ Range(printed) \subseteq Candidates
    /\ Len(printed) = Cardinality(Range(printed))
    /\ Len(printed) = IF call.top < Cardinality(Candidates)
                      THEN call.top ELSE Cardinality(Candidates)
    /\ \A e \in Range(printed), c \in Candidates \ Range(printed) :
           (~e[2].nan /\ ~c[2].nan) => e[2].v >= c[2].v

\* C9: what a query prints has at most `top` entries, is in non-increasing order of
\* the predictions, and holds the `top` best of the entries that survive the exclusion
\* (all of them when fewer survive).
C9_TopKOfSurvivors == Answered => (AtMostTop /\ SortedDescending /\ TopOfCandidates)

IdsInRange == \A article \in DOMAIN articles : articles[article] < Len(article_factors)
NaNLast ==
    \A i, j \in DOMAIN printed : (printed[i][2].nan /\ ~printed[j][2].nan) => j < i

\* C10: a query over predictions that include NaN does not panic and prints the NaN
\* entries after all others.  (With every article id inside the matrices, the sort
\* is the one place where a query can panic.)
C10_NaNDoesNotPanic ==
    ((Queried("predict_for_user") \/ Queried("predict_for_article")) /\ IdsInRange)
        => (pc # "panicked" /\ NaNLast)

Stopped == pc = "panicked" \/ pc = "killed"
OldOrNew(file) ==
    \/ files.disk[file] = files.before[file]
    \/ files.disk[file] = FileOf(to_vec(file))

\* C11: when a write of database.bin or prediction_model.bin fails or the process is
\* torn down during it, a file that existed before holds its complete previous bytes
\* or the complete new bytes, never none or a part of them.
C11_WriteKeepsOldOrNew ==
    \A file \in FileNames : (Stopped /\ files.before[file].exists) => OldOrNew(file)
(***************************************************************************)
(* The training loops, step by step (SpecTrain)                            *)
(***************************************************************************)
Training == trainer.step \in {"loop", "fold", "trained", "done"}

\* what one worker alone, going through the articles lo .. article - 1 and the first
\* vote - 1 votes of `article` in order, has in its accumulator
SequentialFold(t, piece) ==
    LET U == Len(t.P)
        A == Len(t.Q)
        whole == FoldArticles(identity(U, A), SubSeq(article_votes, 1, piece.article),
                              piece.lo, t.P, t.Q, t.factor, t.regularization)
    IN IF PieceDone(piece) THEN whole
       ELSE FoldVotes(whole, piece.article,
                      SubSeq(article_votes[piece.article + 1], 1, piece.vote - 1), 1,
                      t.P, t.Q, t.factor, t.regularization)

PiecesMatchSequential ==
    trainer.step = "fold" =>
        \A p \in DOMAIN trainer.pieces :
            trainer.pieces[p].acc = SequentialFold(trainer, trainer.pieces[p])

BatchedStep ==
    trainer.step = "fold" =>
        IF trainer'.step = "fold"
        THEN trainer'.P = trainer.P /\ trainer'.Q = trainer.Q
        ELSE /\ Reduced(trainer)
             /\ [P |-> trainer'.P, Q |-> trainer'.Q] =
                    Sweep(article_votes, Len(trainer.P), Len(trainer.Q),
                          [P |-> trainer.P, Q |-> trainer.Q], trainer.factor,
                          trainer.learning_rate, trainer.regularization)
             /\ trainer'.sweeps = [trainer.sweeps EXCEPT ![trainer.factor + 1] = @ + 1]

\* C12: a training sweep is batched.  While the workers traverse the articles, whatever
\* the split into pieces and the interleaving of the workers, the factor matrices P and Q
\* are not changed; every accumulator, folded or reduced, equals what a sequential
\* traversal of the same articles collects; and the reduced gradients are applied to
\* column `factor` of P and Q once, after the traversal.
C12_SweepIsBatched == []PiecesMatchSequential /\ [][BatchedStep]_vars

\* a sweep of several workers has been reduced and applied
C12_Witness ==
    /\ trainer.step = "loop"
    /\ trainer.workers >= 2
    /\ trainer.sweeps[1] >= 1
    /\ trainer.P # from_fn(Len(trainer.P), trainer.latent_factors)
    /\ trainer.Q # from_fn(Len(trainer.Q), trainer.latent_factors)

Column(M, k) == [r \in DOMAIN M |-> M[r][k + 1]]

\* factor k is swept only after the factors below it had all their sweeps and before
\* any factor above it had one; no factor has more than `iterations` sweeps, and at the
\* end every factor had exactly that many
FactorOrder ==
    Training =>
        /\ \A k \in 0 .. trainer.latent_factors - 1 :
              trainer.sweeps[k + 1] =
                  IF k < trainer.factor THEN trainer.iterations
                  ELSE IF k = trainer.factor THEN trainer.iteration ELSE 0
        /\ trainer.step \in {"trained", "done"} => trainer.factor = trainer.latent_factors
        /\ trainer.step \in {"loop", "fold"} =>
              trainer.factor < trainer.latent_factors /\ trainer.iteration < trainer.iterations

UntrainedColumnsInitial ==
    Training =>
        \A k \in 0 .. trainer.latent_factors - 1 :
            trainer.sweeps[k + 1] = 0 =>
                /\ Column(trainer.P, k) = [r \in DOMAIN trainer.P |-> Num(InitialFactor)]
                /\ Column(trainer.Q, k) = [r \in DOMAIN trainer.Q |-> Num(InitialFactor)]

OnlyColumnOfFactor ==
    Training =>
        /\ \A k \in 0 .. trainer.latent_factors - 1 :
              k # trainer.factor =>
                  /\ Column(trainer'.P, k) = Column(trainer.P, k)
                  /\ Column(trainer'.Q, k) = Column(trainer.Q, k)
                  /\ trainer'.sweeps[k + 1] = trainer.sweeps[k + 1]
        /\ trainer'.sweeps # trainer.sweeps =>
              trainer'.sweeps = [trainer.sweeps EXCEPT ![trainer.factor + 1] = @ + 1]
        /\ (trainer'.P # trainer.P \/ trainer'.Q # trainer.Q) => trainer'.sweeps # trainer.sweeps

\* C13: the factors are trained in increasing order k = 0 .. latent_factors - 1, each with
\* exactly `iterations` sweeps and no early stop; a sweep for factor k changes only
\* column k of P and Q; a column above k holds the initial 0.1 until its factor's first
\* sweep, and the columns below k keep their values.
C13_FactorsOneAtATime == [](FactorOrder /\ UntrainedColumnsInitial) /\ [][OnlyColumnOfFactor]_vars

\* the second factor has had its first sweep, the first factor all of its sweeps
C13_Witness ==
    /\ trainer.step = "loop"
    /\ trainer.latent_factors = 2 /\ trainer.iterations = 2
    /\ trainer.factor = 1 /\ trainer.iteration = 1
    /\ Len(trainer.P) = 2
    /\ trainer.P[1][1] # Num(InitialFactor)
    /\ trainer.P[1][2] # Num(InitialFactor)
    /\ ~trainer.P[1][2].nan

\* the loops, step by step, end with the matrices of the loops taken at once
StepwiseIsTrainFrom ==
    trainer.step = "trained" =>
        [P |-> trainer.P, Q |-> trainer.Q] =
            TrainFrom(article_votes, Len(trainer.P), Len(trainer.Q),
                      [P |-> from_fn(Len(trainer.P), trainer.latent_factors),
                       Q |-> from_fn(Len(trainer.Q), trainer.latent_factors)],
                      0, 0, trainer.latent_factors, trainer.iterations,
                      trainer.learning_rate, trainer.regularization)

====
